---------------------------- MODULE Spec2Model ----------------------------
(***************************************************************************)
(* Verification model of rbsco/form-app: the Dynamic Form Composer         *)
(* (src/lib/components/DynamicForm.svelte), the form state store and the   *)
(* validation utility (src/lib/stores.ts, which also carries utils.ts),    *)
(* the page that hosts the composer (src/unnamed/part_001) and the         *)
(* submission endpoint (src/routes/api/submit/+server.ts, which also       *)
(* carries types.ts) with its database helpers (src/lib/supabase.ts).      *)
(*                                                                         *)
(* Reading of the store facade.  The components call formState.updateState *)
(* (patch), formState.sessionId and formActions.initialize although        *)
(* stores.ts exports formState as a plain writable and DynamicForm.svelte  *)
(* does not import formActions.  Every caller in the repository uses       *)
(* formState as a facade over the store's state and operations, so the     *)
(* model resolves these calls to the store: updateState(patch) is a        *)
(* shallow merge of patch into the store's state, formState.sessionId is   *)
(* the store's sessionId, formActions is the object of stores.ts.          *)
(***************************************************************************)
EXTENDS Integers, Sequences, FiniteSets, TLC

(***************************************************************************)
(* Bounds of the model.                                                    *)
(***************************************************************************)
\* handleSubmit invocations that may be suspended at an await at once
MaxPending == 2
\* session identifiers issued by generateSessionId in one run
MaxSessions == 3
\* rows the endpoint may insert into each table in one run
MaxRows == 1

(***************************************************************************)
(* JavaScript values held by form fields: undefined, strings (sequences of *)
(* characters) and booleans (checkbox fields).                             *)
(***************************************************************************)
Undefined == [kind |-> "undefined", chars |-> <<>>, b |-> FALSE]

Str(s) == [kind |-> "string", chars |-> s, b |-> FALSE]

Bool(x) == [kind |-> "boolean", chars |-> <<>>, b |-> x]

\* JavaScript truthiness: undefined, '' and false are falsy
Truthy(v) ==
    \/ v.kind = "string" /\ v.chars # <<>>
    \/ v.kind = "boolean" /\ v.b

\* value.toString()
toString(v) ==
    IF v.kind = "string" THEN v.chars
    ELSE IF v.kind = "boolean"
         THEN (IF v.b THEN <<"t", "r", "u", "e">> ELSE <<"f", "a", "l", "s", "e">>)
         ELSE <<"u", "n", "d", "e", "f", "i", "n", "e", "d">>

IsSpace(c) == c = " "

IsDigit(c) == c \in {"0", "1", "2", "3", "4", "5", "6", "7", "8", "9"}

RECURSIVE TrimLeft(_)
TrimLeft(s) ==
    IF s = <<>> THEN s
    ELSE IF IsSpace(Head(s)) THEN TrimLeft(Tail(s)) ELSE s

RECURSIVE TrimRight(_)
TrimRight(s) ==
    IF s = <<>> THEN s
    ELSE IF IsSpace(s[Len(s)]) THEN TrimRight(SubSeq(s, 1, Len(s) - 1)) ELSE s

\* String.prototype.trim
Trim(s) == TrimRight(TrimLeft(s))

\* /^[^\s@]+@[^\s@]+\.[^\s@]+$/.test(s)
emailRegex(s) ==
    \E i \in 1..Len(s) :
        /\ s[i] = "@"
        /\ i >= 2
        /\ \A k \in 1..Len(s) : k # i => (~IsSpace(s[k]) /\ s[k] # "@")
        /\ \E j \in (i + 2)..(Len(s) - 1) : s[j] = "."

\* /^[\d\s\-\+\(\)]+$/.test(s)
phoneRegex(s) ==
    /\ s # <<>>
    /\ \A k \in 1..Len(s) : IsDigit(s[k]) \/ IsSpace(s[k]) \/ s[k] \in {"-", "+", "(", ")"}

\* new RegExp(pattern).test(s) for the patterns the configurations use
RegExpTest(pattern, s) ==
    IF pattern = "^[a-z]+$"
    THEN s # <<>> /\ \A k \in 1..Len(s) : s[k] \in {"a", "b", "c", "t", "r", "u", "e"}
    ELSE IF pattern = "^a" THEN s # <<>> /\ s[1] = "a"
    ELSE TRUE

(***************************************************************************)
(* Validation messages.  text is the fixed part, label and n the           *)
(* interpolated label or bound.                                            *)
(***************************************************************************)
NoMsg == [text |-> "", label |-> "", n |-> 0]

RequiredMsg(label) == [text |-> "is required", label |-> label, n |-> 0]

EmailMsg == [text |-> "Please enter a valid email address", label |-> "", n |-> 0]

PhoneMsg == [text |-> "Please enter a valid phone number", label |-> "", n |-> 0]

MinMsg(n) == [text |-> "Must be at least n characters", label |-> "", n |-> n]

MaxMsg(n) == [text |-> "Must be no more than n characters", label |-> "", n |-> n]

FormatMsg == [text |-> "Invalid format", label |-> "", n |-> 0]

Valid == [isValid |-> TRUE, error |-> NoMsg]

Invalid(m) == [isValid |-> FALSE, error |-> m]

\* the switch on field.type with the max test ahead of the min test
typeRulesMaxFirst(field, value) ==
    IF field.type = "email"
    THEN (IF ~emailRegex(toString(value)) THEN Invalid(EmailMsg) ELSE Valid)
    ELSE IF field.type = "phone"
    THEN (IF ~phoneRegex(toString(value)) THEN Invalid(PhoneMsg) ELSE Valid)
    ELSE IF field.type \in {"text", "textarea"}
    THEN LET strValue == toString(value)
         IN  IF field.max # 0 /\ Len(strValue) > field.max
             THEN Invalid(MaxMsg(field.max))
             ELSE IF field.min # 0 /\ Len(strValue) < field.min
             THEN Invalid(MinMsg(field.min))
             ELSE IF field.pattern # "" /\ ~RegExpTest(field.pattern, strValue)
             THEN Invalid(FormatMsg)
             ELSE Valid
    ELSE Valid

\* the switch on field.type of validateField, reached with a truthy value
typeRules(field, value) ==
    IF field.type = "email"
    THEN (IF ~emailRegex(toString(value)) THEN Invalid(EmailMsg) ELSE Valid)
    ELSE IF field.type = "phone"
    THEN (IF ~phoneRegex(toString(value)) THEN Invalid(PhoneMsg) ELSE Valid)
    ELSE IF field.type \in {"text", "textarea"}
    THEN LET strValue == toString(value)
         IN  IF field.min # 0 /\ Len(strValue) < field.min
             THEN Invalid(MinMsg(field.min))
             ELSE IF field.max # 0 /\ Len(strValue) > field.max
             THEN Invalid(MaxMsg(field.max))
             ELSE IF field.pattern # "" /\ ~RegExpTest(field.pattern, strValue)
             THEN Invalid(FormatMsg)
             ELSE Valid
    ELSE Valid

\* validateField with the whitespace test of the required rule dropped
validateFieldNoTrim(field, value) ==
    IF field.required /\ ~Truthy(value)
    THEN Invalid(RequiredMsg(field.label))
    ELSE IF ~Truthy(value) THEN Valid
    ELSE typeRules(field, value)

\* validateField(field, value) of utils.ts.  min, max of 0 and pattern ""
\* stand for an absent bound (all falsy in the code's tests).
validateField(field, value) ==
    IF field.required /\ (~Truthy(value) \/ Trim(toString(value)) = <<>>)
    THEN Invalid(RequiredMsg(field.label))
    ELSE IF ~Truthy(value) THEN Valid
    ELSE typeRules(field, value)

(***************************************************************************)
(* Form configurations.  A field carries min, max and pattern directly     *)
(* (0, 0 and "" when validation is absent); auto_save is "undefined" when  *)
(* settings or settings.auto_save is absent.                               *)
(***************************************************************************)
FieldNames == {"name", "contact"}

Field(name, label, type, required, min, max, pattern) ==
    [name |-> name, label |-> label, type |-> type, required |-> required,
     min |-> min, max |-> max, pattern |-> pattern]

FieldSets ==
    { << Field("name", "Name", "text", TRUE, 0, 3, ""),
         Field("contact", "Email", "email", FALSE, 0, 0, "") >>,
      << Field("name", "Notes", "textarea", FALSE, 2, 3, "^a"),
         Field("contact", "Agree", "checkbox", TRUE, 0, 0, "") >> }

Configs ==
    [id : {"f1"}, org_id : {"o1"}, org_code : {"ABC123"}, fields : FieldSets,
     auto_save : {"undefined", "true", "false"}]

\* values a user can give a field of the type
InputValues(type) ==
    IF type = "checkbox" THEN {Bool(TRUE), Bool(FALSE)}
    ELSE {Str(<<>>), Str(<<" ">>), Str(<<"a", "b">>), Str(<<"a", "@", "b", ".", "c">>)}

EmptyData == [n \in FieldNames |-> Undefined]

EmptyErrors == [n \in FieldNames |-> NoMsg]

(***************************************************************************)
(* localStorage holds one item, form_<config.id>_data: absent, the JSON    *)
(* text of a field-value map, or text that does not parse.                 *)
(***************************************************************************)
NoItem == [kind |-> "absent", obj |-> EmptyData]

\* JSON.stringify(data): a key whose value is undefined is left out of the
\* text, which parses back to a map without that key
JSONstringify(data) == [kind |-> "json", obj |-> data]

\* text cut off in the middle, as `{"name":"a"`: obj is the map it began
CorruptItem ==
    [kind |-> "corrupt", obj |-> [EmptyData EXCEPT !["name"] = Str(<<"a">>)]]

\* items a previous visit may have left behind
InitialItems ==
    {NoItem, CorruptItem,
     JSONstringify([EmptyData EXCEPT !["name"] = Str(<<"a", "b">>)])}

\* storage.get(key): the parsed item, or null (here <<>>) when absent or malformed
storageGet(item) == IF item.kind = "json" THEN <<item.obj>> ELSE <<>>

(***************************************************************************)
(* The form state store.  An optional value is <<>> (null) or <<v>>.       *)
(***************************************************************************)
VARIABLES
    config,        \* DynamicForm prop: the configuration being rendered
    disabled,      \* DynamicForm prop
    formData,      \* DynamicForm: field name -> value
    errors,        \* DynamicForm: field name -> message (NoMsg: none)
    isSubmitting,  \* DynamicForm: its own submitting flag
    formState,     \* stores.ts: the FormState held by the store
    formConfig,    \* stores.ts: the configuration store
    localStorage,  \* the item form_<config.id>_data
    pending,       \* handleSubmit invocations suspended at an await
    dispatched,    \* notifications dispatched by the last handler run
    tracked,       \* analytics event types enqueued by the last handler run
    submitted,     \* page: the confirmation is shown, the composer unmounted
    lastEvent,     \* the handler that ran last and how it ended
    lastField      \* the field an input or blur handler ran for ("": none)

formVars == <<config, disabled, formData, errors, isSubmitting, formState,
              formConfig, localStorage, pending, dispatched, tracked,
              submitted, lastEvent, lastField>>

\* generateSessionId(): an identifier not issued before
generateSessionId(st) == st.sessionId + 1

\* the store's state when the module is loaded
StoreInit ==
    [config |-> <<>>, data |-> EmptyData, errors |-> EmptyErrors,
     isSubmitting |-> FALSE, isSubmitted |-> FALSE, sessionId |-> 0,
     lastSaved |-> <<>>]

\* formState.updateState(patch): the fields of patch replace those of the state
updateState(st, patch) ==
    [k \in DOMAIN st |-> IF k \in DOMAIN patch THEN patch[k] ELSE st[k]]

\* initialize without the restore of the stored item
initializeNoRestore(st, cfg, item) ==
    [st EXCEPT !.config = <<cfg>>, !.data = EmptyData, !.errors = EmptyErrors,
               !.isSubmitted = FALSE, !.sessionId = generateSessionId(st)]

\* initialize restoring the stored item whatever auto_save says
initializeAlwaysRestore(st, cfg, item) ==
    [st EXCEPT !.config = <<cfg>>,
               !.data = IF storageGet(item) # <<>> THEN storageGet(item)[1]
                        ELSE EmptyData,
               !.errors = EmptyErrors, !.isSubmitted = FALSE,
               !.sessionId = generateSessionId(st)]

\* formActions.initialize(config), reading the stored item
initialize(st, cfg, item) ==
    LET st1 == [st EXCEPT !.config = <<cfg>>, !.data = EmptyData,
                          !.errors = EmptyErrors, !.isSubmitted = FALSE,
                          !.sessionId = generateSessionId(st)]
    IN  IF cfg.auto_save = "true" /\ storageGet(item) # <<>>
        THEN [st1 EXCEPT !.data = storageGet(item)[1]]
        ELSE st1

\* updateField withdrawing a value that is given again
updateFieldToggle(st, fieldName, value) ==
    [st EXCEPT !.data = [st.data EXCEPT ![fieldName] =
                            IF st.data[fieldName] = value THEN Undefined ELSE value],
               !.errors = [st.errors EXCEPT ![fieldName] = NoMsg]]

\* formActions.updateField(fieldName, value): the new store state
updateField(st, fieldName, value) ==
    [st EXCEPT !.data = [st.data EXCEPT ![fieldName] = value],
               !.errors = [st.errors EXCEPT ![fieldName] = NoMsg]]

\* the storage write of formActions.updateField
updateFieldSave(st, fieldName, value, item) ==
    IF st.config # <<>> /\ st.config[1].auto_save = "true"
    THEN JSONstringify([st.data EXCEPT ![fieldName] = value])
    ELSE item

\* formActions.setFieldError
setFieldError(st, fieldName, error) ==
    [st EXCEPT !.errors = [st.errors EXCEPT ![fieldName] = error]]

\* clearFieldError emptying the whole error map
clearFieldErrorAll(st, fieldName) == [st EXCEPT !.errors = EmptyErrors]

\* formActions.clearFieldError
clearFieldError(st, fieldName) ==
    [st EXCEPT !.errors = [st.errors EXCEPT ![fieldName] = NoMsg]]

\* reset that keeps the session identifier
resetKeepSession(st) ==
    [st EXCEPT !.data = EmptyData, !.errors = EmptyErrors, !.isSubmitted = FALSE]

\* formActions.reset() with a configuration in the configuration store
reset(st) ==
    [st EXCEPT !.data = EmptyData, !.errors = EmptyErrors,
               !.isSubmitted = FALSE, !.sessionId = generateSessionId(st)]

(***************************************************************************)
(* DynamicForm: mounting.                                                  *)
(***************************************************************************)
\* onMount: initialize the store, then restore the stored item if it parses
onMountStore(st, cfg, item) ==
    LET st1 == initialize(st, cfg, item)
    IN  IF item.kind = "json" THEN updateState(st1, [data |-> item.obj]) ELSE st1

\* the restore taking whatever the item holds
onMountFormDataUnchecked(item) == item.obj

\* onMount: formData after `if (savedData) try { JSON.parse } catch`
onMountFormData(item) == IF item.kind = "json" THEN item.obj ELSE EmptyData

Note(type, data) == [type |-> type, data |-> data]

FormInit ==
    /\ config \in Configs
    /\ disabled \in BOOLEAN
    /\ localStorage \in InitialItems
    /\ formConfig = <<config>>
    /\ formState = onMountStore(StoreInit, config, localStorage)
    /\ formData = onMountFormData(localStorage)
    /\ errors = EmptyErrors
    /\ isSubmitting = FALSE
    /\ pending = <<>>
    /\ dispatched = <<>>
    /\ tracked = <<"view", "view">>
    /\ submitted = FALSE
    /\ lastEvent = "mount"
    /\ lastField = ""

(***************************************************************************)
(* Field renderers (TextField, TextareaField, SelectField, CheckboxField). *)
(* value and error are bound to formData[field.name] and                   *)
(* errors[field.name] of the composer.                                     *)
(***************************************************************************)
\* handleFieldChange(fieldName, value) of the composer: the item it leaves
handleFieldChangeSave(cfg, data, item) ==
    IF cfg.auto_save # "false" THEN JSONstringify(data) ELSE item

\* handleInput (text, email, phone, textarea) and handleChange (select,
\* checkbox); only handleChange dispatches the 'change' notification the
\* composer answers with handleFieldChange
fieldInput(field, value) ==
    /\ ~submitted /\ ~disabled
    /\ formData' = [formData EXCEPT ![field.name] = value]
    /\ errors' = [errors EXCEPT ![field.name] = NoMsg]
    /\ IF field.type \in {"select", "checkbox"}
       THEN /\ formState' = updateState(updateField(formState, field.name, value),
                                        [data |-> formData', errors |-> errors'])
            /\ localStorage' =
                   handleFieldChangeSave(config, formData',
                       updateFieldSave(formState, field.name, value, localStorage))
            /\ dispatched' = <<Note("change", formData')>>
       ELSE /\ formState' = updateField(formState, field.name, value)
            /\ localStorage' = updateFieldSave(formState, field.name, value, localStorage)
            /\ dispatched' = <<>>
    /\ tracked' = <<"field_change">>
    /\ lastEvent' = "input"
    /\ lastField' = field.name
    /\ UNCHANGED <<config, disabled, isSubmitting, formConfig, pending, submitted>>

\* a blur handler that clears the field's error without validating
fieldBlurNoValidate(field) ==
    /\ ~submitted /\ ~disabled
    /\ errors' = errors
    /\ formState' = clearFieldError(formState, field.name)
    /\ tracked' = <<"field_blur">>
    /\ dispatched' = <<>>
    /\ lastEvent' = "blur"
    /\ lastField' = field.name
    /\ UNCHANGED <<config, disabled, formData, isSubmitting, formConfig,
                   localStorage, pending, submitted>>

\* handleBlur: validate the field's value
fieldBlur(field) ==
    /\ ~submitted /\ ~disabled
    /\ LET validation == validateField(field, formData[field.name])
       IN  IF ~validation.isValid
           THEN /\ errors' = [errors EXCEPT ![field.name] = validation.error]
                /\ formState' = setFieldError(formState, field.name, validation.error)
           ELSE /\ errors' = errors
                /\ formState' = clearFieldError(formState, field.name)
    /\ tracked' = <<"field_blur">>
    /\ dispatched' = <<>>
    /\ lastEvent' = "blur"
    /\ lastField' = field.name
    /\ UNCHANGED <<config, disabled, formData, isSubmitting, formConfig,
                   localStorage, pending, submitted>>

(***************************************************************************)
(* DynamicForm.handleSubmit.  It runs to the fetch call, is suspended at   *)
(* `await fetch(...)` and at `await response.json()`, and finishes in the  *)
(* success branch or in the catch block, always through the finally block. *)
(***************************************************************************)
\* the validation loop: the error map it builds
RECURSIVE validateAllFields(_, _, _)
validateAllFields(fields, data, newErrors) ==
    IF fields = <<>> THEN newErrors
    ELSE LET field == Head(fields)
             validation == validateField(field, data[field.name])
         IN  validateAllFields(Tail(fields), data,
                 IF validation.isValid THEN newErrors
                 ELSE [newErrors EXCEPT ![field.name] =
                          IF validation.error # NoMsg THEN validation.error
                          ELSE RequiredMsg(field.label)])

\* the validation loop: its isValid flag
allFieldsValid(fields, data) ==
    \A i \in 1..Len(fields) : validateField(fields[i], data[fields[i].name]).isValid

\* the entry test with the isSubmitting disjunct dropped
submitBlockedByDisabledOnly(submitting, dis) == dis

\* `if (isSubmitting || disabled) return;`
submitBlocked(submitting, dis) == submitting \/ dis

\* the body of the POST /api/submit request
submissionData(cfg, data, st) ==
    [form_id |-> cfg.id, org_code |-> cfg.org_code, data |-> data,
     session_id |-> st.sessionId]

handleSubmit ==
    /\ ~submitted
    /\ IF submitBlocked(isSubmitting, disabled)
       THEN /\ lastEvent' = "submit:rejected"
            /\ lastField' = ""
            /\ dispatched' = <<>>
            /\ tracked' = <<>>
            /\ UNCHANGED <<errors, formState, isSubmitting, pending>>
       ELSE LET newErrors == validateAllFields(config.fields, formData, EmptyErrors)
                st1 == updateState(formState, [errors |-> newErrors])
            IN  /\ errors' = newErrors
                /\ IF ~allFieldsValid(config.fields, formData)
                   THEN /\ formState' = st1
                        /\ dispatched' = <<Note("validationError", formData)>>
                        /\ tracked' = <<>>
                        /\ lastEvent' = "submit:invalid"
                        /\ lastField' = ""
                        /\ UNCHANGED <<isSubmitting, pending>>
                   ELSE /\ Len(pending) < MaxPending
                        /\ isSubmitting' = TRUE
                        /\ formState' = updateState(st1, [isSubmitting |-> TRUE])
                        /\ tracked' = <<"error">>
                        /\ pending' = Append(pending,
                               [pc |-> "fetch",
                                body |-> submissionData(config, formData, formState)])
                        /\ dispatched' = <<>>
                        /\ lastEvent' = "submit:sent"
                        /\ lastField' = ""
    /\ UNCHANGED <<config, disabled, formData, formConfig, localStorage, submitted>>

Remove(seq, i) == SubSeq(seq, 1, i - 1) \o SubSeq(seq, i + 1, Len(seq))

\* the finally block leaving the flag set
finallyKeepsSubmitting == TRUE

\* `finally { isSubmitting = false; }`
finallyIsSubmitting == FALSE

\* the catch block followed by the finally block; the page answers the
\* 'error' notification with handleFormError
catchBlock(i) ==
    /\ formState' = updateState(formState, [isSubmitting |-> FALSE])
    /\ dispatched' = <<Note("error", formData)>>
    /\ tracked' = <<"error">>
    /\ isSubmitting' = finallyIsSubmitting
    /\ pending' = Remove(pending, i)
    /\ lastEvent' = "submit:failed"
    /\ lastField' = ""
    /\ UNCHANGED <<config, disabled, formData, errors, formConfig, localStorage,
                   submitted>>

\* fetch rejects: a network fault
fetchRejected(i) ==
    /\ pending[i].pc = "fetch"
    /\ catchBlock(i)

\* fetch resolves with a response (of any status)
fetchResolved(i) ==
    /\ pending[i].pc = "fetch"
    /\ pending' = [pending EXCEPT ![i].pc = "json"]
    /\ lastEvent' = "fetch:resolved"
    /\ lastField' = ""
    /\ dispatched' = <<>>
    /\ tracked' = <<>>
    /\ UNCHANGED <<config, disabled, formData, errors, isSubmitting, formState,
                   formConfig, localStorage, submitted>>

\* response.json() rejects: the body is not JSON
jsonRejected(i) ==
    /\ pending[i].pc = "json"
    /\ catchBlock(i)

\* bodies response.json() can resolve with
Results ==
    {[isNull |-> FALSE, success |-> TRUE], [isNull |-> FALSE, success |-> FALSE],
     [isNull |-> TRUE, success |-> FALSE]}

\* the success test taking every non-null body for a success
resultSuccessAlways(result) == ~result.isNull

\* `if (result.success)`; reading success of null throws into the catch block
resultSuccess(result) == ~result.isNull /\ result.success

\* the success patch without isSubmitted
successPatchWithoutSubmitted == [isSubmitting |-> FALSE]

\* the patch of the success branch
successPatch == [isSubmitted |-> TRUE, isSubmitting |-> FALSE]

\* response.json() resolves with result; the page answers the 'submit'
\* notification with handleFormSubmit
jsonResolved(i, result) ==
    /\ pending[i].pc = "json"
    /\ IF resultSuccess(result)
       THEN /\ tracked' = <<"submit", "submit">>
            /\ localStorage' = NoItem
            /\ formState' = updateState(formState, successPatch)
            /\ dispatched' = <<Note("submit", formData)>>
            /\ submitted' = TRUE
            /\ isSubmitting' = finallyIsSubmitting
            /\ pending' = Remove(pending, i)
            /\ lastEvent' = "submit:success"
            /\ lastField' = ""
            /\ UNCHANGED <<config, disabled, formData, errors, formConfig>>
       ELSE catchBlock(i)

\* DynamicForm.handleReset
handleReset ==
    /\ ~submitted /\ ~disabled
    /\ formData' = EmptyData
    /\ errors' = EmptyErrors
    /\ localStorage' = NoItem
    /\ formState' = updateState(formState,
           [data |-> EmptyData, errors |-> EmptyErrors, isSubmitted |-> FALSE])
    /\ dispatched' = <<Note("reset", EmptyData)>>
    /\ tracked' = <<>>
    /\ lastEvent' = "reset"
    /\ lastField' = ""
    /\ UNCHANGED <<config, disabled, isSubmitting, formConfig, pending, submitted>>

\* the 30-second auto-save timer of stores.ts
autoSaveTimer ==
    /\ IF formConfig # <<>> /\ formConfig[1].auto_save = "true" /\ ~formState.isSubmitted
       THEN localStorage' = JSONstringify(formState.data)
       ELSE localStorage' = localStorage
    /\ lastEvent' = "timer"
    /\ lastField' = ""
    /\ dispatched' = <<>>
    /\ tracked' = <<>>
    /\ UNCHANGED <<config, disabled, formData, errors, isSubmitting, formState,
                   formConfig, pending, submitted>>

\* page: submitAnother resets the store and shows the form again, which
\* mounts a new DynamicForm
submitAnother ==
    /\ submitted
    /\ pending = <<>>
    /\ formState.sessionId + 2 <= MaxSessions
    /\ submitted' = FALSE
    /\ localStorage' = NoItem
    /\ formState' = onMountStore(reset(formState), config, NoItem)
    /\ formData' = onMountFormData(NoItem)
    /\ errors' = EmptyErrors
    /\ isSubmitting' = FALSE
    /\ dispatched' = <<>>
    /\ tracked' = <<"view">>
    /\ lastEvent' = "mount"
    /\ lastField' = ""
    /\ UNCHANGED <<config, disabled, formConfig, pending>>

(***************************************************************************)
(* The submission endpoint, POST /api/submit.                              *)
(***************************************************************************)
\* JSON values of a request body's members
JMissing == [t |-> "undefined", v |-> ""]

JString(str) == [t |-> "string", v |-> str]

JNumber == [t |-> "number", v |-> "7"]

JObject(name) == [t |-> "object", v |-> name]

\* request bodies: text that is not JSON (request.json() rejects with a
\* SyntaxError whose message depends on the text), JSON that is no object,
\* and JSON objects
Bodies ==
    [kind : {"malformed"},
     message : {"Unexpected end of JSON input", "Unexpected token < in JSON at position 0"},
     form_id : {JMissing}, org_code : {JMissing}, data : {JMissing},
     session_id : {JMissing}]
    \cup
    [kind : {"null"}, message : {""},
     form_id : {JMissing}, org_code : {JMissing}, data : {JMissing},
     session_id : {JMissing}]
    \cup
    [kind : {"object"}, message : {""},
     form_id : {JMissing, JNumber, JString("f1"), JString("f2")},
     org_code : {JNumber, JString("ABC12"), JString("ABC123"), JString("XYZ789"),
                 JString("NOPE00")},
     data : {JString("text"), JObject("d1")},
     session_id : {JMissing, JString(""), JString("s1")}]

\* FormSubmissionSchema.parse(body) without the length of org_code
FormSubmissionSchemaNoLength(b) ==
    IF b.kind # "object" THEN {"(root)"}
    ELSE {path \in {"form_id", "org_code", "data", "session_id"} :
            \/ path = "form_id" /\ b.form_id.t # "string"
            \/ path = "org_code" /\ b.org_code.t # "string"
            \/ path = "data" /\ b.data.t # "object"
            \/ path = "session_id" /\ b.session_id.t \notin {"undefined", "string"}}

\* FormSubmissionSchema.parse(body): the paths of the issues of the ZodError
\* it throws, {} when it returns the submission
FormSubmissionSchema(b) ==
    IF b.kind # "object" THEN {"(root)"}
    ELSE {path \in {"form_id", "org_code", "data", "session_id"} :
            \/ path = "form_id" /\ b.form_id.t # "string"
            \/ path = "org_code" /\ (b.org_code.t # "string" \/ Len(b.org_code.v) # 6)
            \/ path = "data" /\ b.data.t # "object"
            \/ path = "session_id" /\ b.session_id.t \notin {"undefined", "string"}}

\* the rows of org_custom_forms; org_code is unique
org_custom_forms ==
    {[id |-> "f1", org_id |-> "o1", org_code |-> "ABC123"],
     [id |-> "f2", org_id |-> "o2", org_code |-> "XYZ789"]}

Error(name, code, message, issues) ==
    [name |-> name, code |-> code, message |-> message, errors |-> issues]

\* getFormByOrgCode(orgCode): .single() gives the row when exactly one
\* matches and an error otherwise; fault is a failure of the database call
getFormByOrgCode(orgCode, fault) ==
    LET rows == {r \in org_custom_forms : r.org_code = orgCode}
    IN  IF fault
        THEN [data |-> <<>>, error |-> <<Error("PostgrestError", "", "fetch failed", {})>>]
        ELSE IF Cardinality(rows) = 1
        THEN [data |-> <<CHOOSE r \in rows : TRUE>>, error |-> <<>>]
        ELSE [data |-> <<>>,
              error |-> <<Error("PostgrestError", "PGRST116", "no rows", {})>>]

Response(status, success, error, code, details, data) ==
    [status |-> status, success |-> success, error |-> error, code |-> code,
     details |-> details, data |-> data]

GenericMessage == "An unexpected error occurred"

\* handleApiError answering every error with the generic message
handleApiErrorGeneric(error) ==
    [message |-> GenericMessage, code |-> "UNKNOWN_ERROR"]

\* handleApiError(error): the message and code of the FormError it returns
handleApiError(error) ==
    IF error.code = "PGRST116"
    THEN [message |-> "Form not found", code |-> "FORM_NOT_FOUND"]
    ELSE IF error.message # ""
    THEN [message |-> error.message, code |-> error.code]
    ELSE [message |-> GenericMessage, code |-> "UNKNOWN_ERROR"]

\* the catch block of POST
catchResponse(error) ==
    IF error.name = "ZodError"
    THEN Response(400, FALSE, "Invalid submission data", "", error.errors, <<>>)
    ELSE LET apiError == handleApiError(error)
         IN  Response(500, FALSE, apiError.message, apiError.code, {}, <<>>)

\* the answer to an unresolved org code given as a bad request
notFoundAsBadRequest ==
    Response(400, FALSE, "Invalid organization code or form not found", "", {}, <<>>)

\* the answer to an org code that resolves to no configuration
notFoundResponse ==
    Response(404, FALSE, "Invalid organization code or form not found", "", {}, <<>>)

mismatchResponse == Response(400, FALSE, "Form ID mismatch", "", {}, <<>>)

\* the id test of POST dropped
formIdMismatchNever(formCfg, b) == FALSE

\* `formConfig.id !== submission.form_id`
formIdMismatch(formCfg, b) == formCfg.id # b.form_id.v

\* the success answer echoing the payload's form_id and the row's id as org_id
successResponseFromPayload(formCfg, b) ==
    Response(200, TRUE, "", "", {},
             <<[submission_id |-> "sub", org_id |-> formCfg.id,
                form_id |-> b.form_id.v]>>)

\* the success answer of POST; submission_id is `sub_<time>_<random>`
successResponse(formCfg, b) ==
    Response(200, TRUE, "", "", {},
             <<[submission_id |-> "sub", org_id |-> formCfg.org_id,
                form_id |-> formCfg.id]>>)

\* `if (submission.session_id)`
hasSessionId(b) == b.session_id.t = "string" /\ b.session_id.v # ""

sessionRow(formCfg, b) ==
    [org_id |-> formCfg.org_id, form_id |-> formCfg.id,
     session_id |-> b.session_id.v]

analyticsRow(formCfg, b) ==
    [org_id |-> formCfg.org_id, form_id |-> formCfg.id, event_type |-> "submit",
     event_data |-> b.data.v, session_id |-> b.session_id]

VARIABLES
    apiPc,           \* where the POST handler stands
    body,            \* the body of the request being handled
    formLookup,      \* what getFormByOrgCode returned
    response,        \* the response produced, <<>> while there is none
    thrown,          \* the error the handler's try block raised, if any
    dbCalls,         \* the database calls of this request, with their outcome
    form_sessions,   \* table form_sessions
    form_analytics,  \* table form_analytics
    seen500          \* the error messages of the 500 responses so far

apiVars == <<apiPc, body, formLookup, response, thrown, dbCalls, form_sessions,
             form_analytics, seen500>>

NoBody ==
    [kind |-> "null", message |-> "", form_id |-> JMissing, org_code |-> JMissing,
     data |-> JMissing, session_id |-> JMissing]

NoLookup == [data |-> <<>>, error |-> <<>>]

ApiInit ==
    /\ apiPc = "idle"
    /\ body = NoBody
    /\ formLookup = NoLookup
    /\ response = <<>>
    /\ thrown = <<>>
    /\ dbCalls = <<>>
    /\ form_sessions = <<>>
    /\ form_analytics = <<>>
    /\ seen500 = {}

Call(op, table, ok) == [op |-> op, table |-> table, ok |-> ok]

\* the handler ends with the response r
respond(r) ==
    /\ response' = <<r>>
    /\ apiPc' = "responded"
    /\ seen500' = IF r.status = 500 THEN seen500 \cup {r.error} ELSE seen500

\* POST: from the request to the call of getFormByOrgCode
POST(b) ==
    /\ apiPc \in {"idle", "responded"}
    /\ Len(form_sessions) < MaxRows /\ Len(form_analytics) < MaxRows
    /\ body' = b
    /\ dbCalls' = <<>>
    /\ formLookup' = NoLookup
    /\ IF b.kind = "malformed"
       THEN LET error == Error("SyntaxError", "", b.message, {})
            IN  thrown' = <<error>> /\ respond(catchResponse(error))
       ELSE IF FormSubmissionSchema(b) # {}
       THEN LET error == Error("ZodError", "", "invalid", FormSubmissionSchema(b))
            IN  thrown' = <<error>> /\ respond(catchResponse(error))
       ELSE /\ thrown' = <<>>
            /\ response' = <<>>
            /\ apiPc' = "lookup"
            /\ seen500' = seen500
    /\ UNCHANGED <<form_sessions, form_analytics>>

\* POST: getFormByOrgCode has returned
lookupReturned(fault) ==
    /\ apiPc = "lookup"
    /\ LET result == getFormByOrgCode(body.org_code.v, fault)
       IN  /\ formLookup' = result
           /\ dbCalls' = Append(dbCalls, Call("select", "org_custom_forms", ~fault))
           /\ IF result.error # <<>> \/ result.data = <<>>
              THEN respond(notFoundResponse)
              ELSE IF formIdMismatch(result.data[1], body)
              THEN respond(mismatchResponse)
              ELSE /\ apiPc' = IF hasSessionId(body) THEN "session" ELSE "track"
                   /\ UNCHANGED <<response, seen500>>
    /\ UNCHANGED <<body, thrown, form_sessions, form_analytics>>

\* POST: createFormSession has returned; its { data, error } is not read
sessionReturned(ok) ==
    /\ apiPc = "session"
    /\ form_sessions' =
           IF ok THEN Append(form_sessions, sessionRow(formLookup.data[1], body))
           ELSE form_sessions
    /\ dbCalls' = Append(dbCalls, Call("insert", "form_sessions", ok))
    /\ apiPc' = "track"
    /\ UNCHANGED <<body, formLookup, response, thrown, form_analytics, seen500>>

\* POST: trackAnalyticsEvent has returned; its { data, error } is not read
trackReturned(ok) ==
    /\ apiPc = "track"
    /\ form_analytics' =
           IF ok THEN Append(form_analytics, analyticsRow(formLookup.data[1], body))
           ELSE form_analytics
    /\ dbCalls' = Append(dbCalls, Call("insert", "form_analytics", ok))
    /\ respond(successResponse(formLookup.data[1], body))
    /\ UNCHANGED <<body, formLookup, thrown, form_sessions>>

(***************************************************************************)
(* formActions of stores.ts called directly.  call records the last call:  *)
(* its name and arguments and what it returned or raised.                  *)
(***************************************************************************)
VARIABLES call

storeVars == <<call>>

NoCall ==
    [op |-> "", fieldName |-> "", value |-> Undefined, error |-> NoMsg,
     ret |-> FALSE, raised |-> ""]

Called(op, fieldName, value, error, ret, raised) ==
    [op |-> op, fieldName |-> fieldName, value |-> value, error |-> error,
     ret |-> ret, raised |-> raised]

\* values and messages the callers pass
StoreValues == {Str(<<"a", "b">>), Str(<<"b", "b">>)}

StoreMessages == {FormatMsg}

\* the store and the storage when stores.ts is loaded
StoreModuleInit ==
    /\ formState = StoreInit
    /\ formConfig = <<>>
    /\ localStorage \in InitialItems
    /\ call = NoCall

\* the composer is not part of a run of the store alone
ComposerIdle ==
    /\ config = [id |-> "f1", org_id |-> "o1", org_code |-> "ABC123",
                 fields |-> CHOOSE fs \in FieldSets : fs[1].required,
                 auto_save |-> "true"]
    /\ disabled = FALSE
    /\ formData = EmptyData
    /\ errors = EmptyErrors
    /\ isSubmitting = FALSE
    /\ pending = <<>>
    /\ dispatched = <<>>
    /\ tracked = <<>>
    /\ submitted = FALSE
    /\ lastEvent = ""
    /\ lastField = ""

composerVars == <<config, disabled, formData, errors, isSubmitting, pending,
                  dispatched, tracked, submitted, lastEvent, lastField>>

\* formActions.initialize(config)
storeInitialize(cfg) ==
    /\ formState.sessionId < MaxSessions
    /\ formState' = initialize(formState, cfg, localStorage)
    /\ formConfig' = <<cfg>>
    /\ call' = Called("initialize", "", Undefined, NoMsg, FALSE, "")
    /\ UNCHANGED localStorage

\* formActions.updateField(fieldName, value)
storeUpdateField(fieldName, value) ==
    /\ formState' = updateField(formState, fieldName, value)
    /\ localStorage' = updateFieldSave(formState, fieldName, value, localStorage)
    /\ call' = Called("updateField", fieldName, value, NoMsg, FALSE, "")
    /\ UNCHANGED formConfig

\* formActions.setFieldError(fieldName, error)
storeSetFieldError(fieldName, error) ==
    /\ formState' = setFieldError(formState, fieldName, error)
    /\ call' = Called("setFieldError", fieldName, Undefined, error, FALSE, "")
    /\ UNCHANGED <<formConfig, localStorage>>

\* formActions.clearFieldError(fieldName)
storeClearFieldError(fieldName) ==
    /\ formState' = clearFieldError(formState, fieldName)
    /\ call' = Called("clearFieldError", fieldName, Undefined, NoMsg, FALSE, "")
    /\ UNCHANGED <<formConfig, localStorage>>

\* formActions.clearErrors()
clearErrors(st) == [st EXCEPT !.errors = EmptyErrors]

storeClearErrors ==
    /\ formState' = clearErrors(formState)
    /\ call' = Called("clearErrors", "", Undefined, NoMsg, FALSE, "")
    /\ UNCHANGED <<formConfig, localStorage>>

\* formActions.setSubmitting(isSubmitting)
setSubmitting(st, b) == [st EXCEPT !.isSubmitting = b]

storeSetSubmitting(b) ==
    /\ formState' = setSubmitting(formState, b)
    /\ call' = Called("setSubmitting", "", Bool(b), NoMsg, FALSE, "")
    /\ UNCHANGED <<formConfig, localStorage>>

\* formActions.setSubmitted(), after its formState.update: `state` is a
\* parameter of the update callback only, so in the browser `state.config`
\* of the following test raises a ReferenceError before storage.remove
setSubmittedRemove(st, item) == [item |-> item, raised |-> "ReferenceError"]

storeSetSubmitted ==
    /\ formState' = [formState EXCEPT !.isSubmitted = TRUE]
    /\ localStorage' = setSubmittedRemove(formState', localStorage).item
    /\ call' = Called("setSubmitted", "", Undefined, NoMsg, FALSE,
                      setSubmittedRemove(formState', localStorage).raised)
    /\ UNCHANGED formConfig

\* formActions.reset()
storeReset ==
    /\ call' = Called("reset", "", Undefined, NoMsg, FALSE, "")
    /\ IF formConfig # <<>>
       THEN /\ formState.sessionId < MaxSessions
            /\ formState' = reset(formState)
            /\ localStorage' = NoItem
       ELSE UNCHANGED <<formState, localStorage>>
    /\ UNCHANGED formConfig

\* formActions.validate(): the message it stores for one field (NoMsg: none)
validateEntry(field, value) ==
    IF field.required /\ (~Truthy(value) \/ Trim(toString(value)) = <<>>)
    THEN RequiredMsg(field.label)
    ELSE IF ~Truthy(value) THEN NoMsg
    ELSE IF field.type = "email"
    THEN (IF ~emailRegex(toString(value)) THEN EmailMsg ELSE NoMsg)
    ELSE IF field.type = "phone"
    THEN (IF ~phoneRegex(toString(value)) THEN PhoneMsg ELSE NoMsg)
    ELSE IF field.type \in {"text", "textarea"}
    THEN LET strValue == toString(value)
         IN  IF field.max # 0 /\ Len(strValue) > field.max THEN MaxMsg(field.max)
             ELSE IF field.min # 0 /\ Len(strValue) < field.min THEN MinMsg(field.min)
             ELSE NoMsg
    ELSE NoMsg

\* formActions.validate(): the error map it builds for the active config
RECURSIVE validateErrors(_, _, _)
validateErrors(fields, data, errs) ==
    IF fields = <<>> THEN errs
    ELSE validateErrors(Tail(fields), data,
             [errs EXCEPT ![Head(fields).name] =
                 IF validateEntry(Head(fields), data[Head(fields).name]) # NoMsg
                 THEN validateEntry(Head(fields), data[Head(fields).name])
                 ELSE @])

\* formActions.validate()
storeValidate ==
    /\ IF formState.config = <<>>
       THEN /\ call' = Called("validate", "", Undefined, NoMsg, FALSE, "")
            /\ UNCHANGED formState
       ELSE LET newErrors == validateErrors(formState.config[1].fields,
                                            formState.data, EmptyErrors)
            IN  /\ formState' = [formState EXCEPT !.errors = newErrors]
                /\ call' = Called("validate", "", Undefined, NoMsg,
                                  newErrors = EmptyErrors, "")
    /\ UNCHANGED <<formConfig, localStorage>>

\* the 30-second timer while only the store is in use
storeTimer ==
    /\ localStorage' =
           IF formConfig # <<>> /\ formConfig[1].auto_save = "true"
              /\ ~formState.isSubmitted
           THEN JSONstringify(formState.data)
           ELSE localStorage
    /\ call' = Called("timer", "", Undefined, NoMsg, FALSE, "")
    /\ UNCHANGED <<formState, formConfig>>

(***************************************************************************)
(* DynamicForm.getFieldLayout.  Fields are named 1..n; columns is 0 when   *)
(* config.layout or its columns is absent, fieldOrder is <<>> when absent  *)
(* (`||` takes the default for both).                                      *)
(***************************************************************************)
VARIABLES
    layoutConfig,  \* the fields and layout of the config prop
    fieldLayout    \* DynamicForm: the column groups

layoutVars == <<layoutConfig, fieldLayout>>

(***************************************************************************)
(* validateField called on its own: the last call and what it returned.    *)
(***************************************************************************)
VARIABLES checked

utilVars == <<checked>>

vars == <<formVars, apiVars, storeVars, layoutVars, utilVars>>

\* fields and values validateField is called with
ValidateFields ==
    {Field("name", "Name", type, required, min, max, pattern) :
         type \in {"text", "textarea", "email", "phone", "select", "checkbox"},
         required \in BOOLEAN, min \in {0, 2, 5}, max \in {0, 3},
         pattern \in {"", "^a", "^[a-z]+$"}}

ValidateValues ==
    {Undefined, Bool(FALSE), Bool(TRUE), Str(<<>>), Str(<<" ">>), Str(<<"b">>),
     Str(<<"a", "b">>), Str(<<"1", "2">>), Str(<<"a", "b", "c", "d">>),
     Str(<<"b", "1", "b", "b">>), Str(<<"a", "@", "b", ".", "c">>)}

Checked(field, value) ==
    [field |-> field, value |-> value, result |-> validateField(field, value)]

\* no call of validateField has been made
NotChecked ==
    [field |-> Field("name", "Name", "text", FALSE, 0, 0, ""),
     value |-> Undefined, result |-> Valid]

validateFieldCall(field, value) == checked' = Checked(field, value)

\* fields of a configuration that are laid out
MaxFields == 7
\* columns a layout may ask for (layout.columns is a number the composer
\* takes as given; whole numbers from 0 are laid out here)
MaxColumns == 5

\* fieldOrder.indexOf(name): 0-based, -1 when name is not listed
RECURSIVE indexOf(_, _)
indexOf(seq, x) ==
    IF seq = <<>> THEN -1
    ELSE IF Head(seq) = x THEN 0
    ELSE IF indexOf(Tail(seq), x) = -1 THEN -1
    ELSE indexOf(Tail(seq), x) + 1

\* config.fields.map(f => f.name)
fieldNamesOf(fields) == fields

\* the field list left in the order of config.fields
sortFieldsNone(fields, fieldOrder) == fields

\* [...config.fields].sort((a, b) => aIndex - bIndex): a stable sort by the
\* position in fieldOrder
RECURSIVE sortFields(_, _)
sortFields(fields, fieldOrder) ==
    IF fields = <<>> THEN <<>>
    ELSE LET n == Len(fields)
             last == fields[n]
             rest == sortFields(SubSeq(fields, 1, n - 1), fieldOrder)
             at == Cardinality({k \in 1..Len(rest) :
                       indexOf(fieldOrder, rest[k]) <= indexOf(fieldOrder, last)})
         IN  SubSeq(rest, 1, at) \o <<last>> \o SubSeq(rest, at + 1, Len(rest))

\* the column groups filled round-robin, the last field left out
RECURSIVE fillDropLast(_, _, _)
fillDropLast(groups, sorted, index) ==
    IF index + 1 >= Len(sorted) THEN groups
    ELSE fillDropLast([groups EXCEPT ![(index % Len(groups)) + 1] =
                           Append(@, sorted[index + 1])], sorted, index + 1)

\* the column groups filled by contiguous blocks
RECURSIVE fillBlocks(_, _, _)
fillBlocks(groups, sorted, index) ==
    IF index >= Len(sorted) THEN groups
    ELSE LET size == (Len(sorted) + Len(groups) - 1) \div Len(groups)
         IN  fillBlocks([groups EXCEPT ![(index \div size) + 1] =
                             Append(@, sorted[index + 1])], sorted, index + 1)

\* sortedFields.forEach((field, index) => columnGroups[index % columns].push(field))
RECURSIVE fillColumns(_, _, _)
fillColumns(groups, sorted, index) ==
    IF index >= Len(sorted) THEN groups
    ELSE fillColumns([groups EXCEPT ![(index % Len(groups)) + 1] =
                          Append(@, sorted[index + 1])], sorted, index + 1)

\* getFieldLayout()
getFieldLayout(cfg) ==
    LET columns == IF cfg.columns # 0 THEN cfg.columns ELSE 1
        fieldOrder == IF cfg.fieldOrder # <<>> THEN cfg.fieldOrder
                      ELSE fieldNamesOf(cfg.fields)
        sortedFields == sortFields(cfg.fields, fieldOrder)
    IN  fillColumns([i \in 1..columns |-> <<>>], sortedFields, 0)

\* field lists and layouts of the configurations
LayoutConfigs ==
    [fields : {[i \in 1..n |-> i] : n \in 0..MaxFields},
     columns : 0..MaxColumns,
     fieldOrder : {<<>>, <<3, 1, 2>>, <<2, 9>>,
                   [i \in 1..MaxFields |-> MaxFields + 1 - i]}]

\* the composer is created with a config and computes its layout
mountLayout(cfg) ==
    /\ layoutConfig' = cfg
    /\ fieldLayout' = getFieldLayout(cfg)

LayoutInit ==
    /\ layoutConfig \in LayoutConfigs
    /\ fieldLayout = getFieldLayout(layoutConfig)

\* a configuration without fields, where the layout is not looked at
LayoutIdle ==
    /\ layoutConfig = [fields |-> <<>>, columns |-> 0, fieldOrder |-> <<>>]
    /\ fieldLayout = <<<<>>>>

(***************************************************************************)
(* Specifications: SpecForm is the page with the composer and the store,   *)
(* SpecApi the endpoint.                                                   *)
(***************************************************************************)
FormNext ==
    \/ /\ \E i \in 1..Len(config.fields) :
              \E value \in InputValues(config.fields[i].type) :
                  fieldInput(config.fields[i], value)
       /\ UNCHANGED <<apiVars, storeVars, layoutVars, utilVars>>
    \/ (\E i \in 1..Len(config.fields) : fieldBlur(config.fields[i])) /\ UNCHANGED <<apiVars, storeVars, layoutVars, utilVars>>
    \/ handleSubmit /\ UNCHANGED <<apiVars, storeVars, layoutVars, utilVars>>
    \/ (\E i \in 1..Len(pending) : fetchRejected(i)) /\ UNCHANGED <<apiVars, storeVars, layoutVars, utilVars>>
    \/ (\E i \in 1..Len(pending) : fetchResolved(i)) /\ UNCHANGED <<apiVars, storeVars, layoutVars, utilVars>>
    \/ (\E i \in 1..Len(pending) : jsonRejected(i)) /\ UNCHANGED <<apiVars, storeVars, layoutVars, utilVars>>
    \/ /\ \E i \in 1..Len(pending) : \E result \in Results : jsonResolved(i, result)
       /\ UNCHANGED <<apiVars, storeVars, layoutVars, utilVars>>
    \/ handleReset /\ UNCHANGED <<apiVars, storeVars, layoutVars, utilVars>>
    \/ autoSaveTimer /\ UNCHANGED <<apiVars, storeVars, layoutVars, utilVars>>
    \/ submitAnother /\ UNCHANGED <<apiVars, storeVars, layoutVars, utilVars>>

\* the page is loaded and no request has reached the endpoint
Init ==
    /\ FormInit
    /\ ApiInit
    /\ call = NoCall
    /\ LayoutIdle
    /\ checked = NotChecked

SpecForm == Init /\ [][FormNext]_vars

ApiNext ==
    \/ (\E b \in Bodies : POST(b)) /\ UNCHANGED <<formVars, storeVars, layoutVars, utilVars>>
    \/ (\E fault \in BOOLEAN : lookupReturned(fault)) /\ UNCHANGED <<formVars, storeVars, layoutVars, utilVars>>
    \/ (\E ok \in BOOLEAN : sessionReturned(ok)) /\ UNCHANGED <<formVars, storeVars, layoutVars, utilVars>>
    \/ (\E ok \in BOOLEAN : trackReturned(ok)) /\ UNCHANGED <<formVars, storeVars, layoutVars, utilVars>>

\* the endpoint runs on the server: the page is left as loaded
ApiSpecInit ==
    /\ FormInit
    /\ ApiInit
    /\ call = NoCall
    /\ LayoutIdle
    /\ checked = NotChecked
    /\ config = [id |-> "f1", org_id |-> "o1", org_code |-> "ABC123",
                 fields |-> CHOOSE fs \in FieldSets : fs[1].required,
                 auto_save |-> "true"]
    /\ ~disabled
    /\ localStorage = NoItem

SpecApi == ApiSpecInit /\ [][ApiNext]_vars

StoreNext ==
    \/ (\E cfg \in Configs : storeInitialize(cfg)) /\ UNCHANGED <<composerVars, apiVars, layoutVars, utilVars>>
    \/ /\ \E fieldName \in FieldNames : \E value \in StoreValues :
              storeUpdateField(fieldName, value)
       /\ UNCHANGED <<composerVars, apiVars, layoutVars, utilVars>>
    \/ /\ \E fieldName \in FieldNames : \E error \in StoreMessages :
              storeSetFieldError(fieldName, error)
       /\ UNCHANGED <<composerVars, apiVars, layoutVars, utilVars>>
    \/ /\ \E fieldName \in FieldNames : storeClearFieldError(fieldName)
       /\ UNCHANGED <<composerVars, apiVars, layoutVars, utilVars>>
    \/ storeClearErrors /\ UNCHANGED <<composerVars, apiVars, layoutVars, utilVars>>
    \/ (\E b \in BOOLEAN : storeSetSubmitting(b)) /\ UNCHANGED <<composerVars, apiVars, layoutVars, utilVars>>
    \/ storeSetSubmitted /\ UNCHANGED <<composerVars, apiVars, layoutVars, utilVars>>
    \/ storeReset /\ UNCHANGED <<composerVars, apiVars, layoutVars, utilVars>>
    \/ storeValidate /\ UNCHANGED <<composerVars, apiVars, layoutVars, utilVars>>
    \/ storeTimer /\ UNCHANGED <<composerVars, apiVars, layoutVars, utilVars>>

\* stores.ts is loaded; nothing is mounted and no request is being handled
StoreSpecInit ==
    /\ StoreModuleInit
    /\ ComposerIdle
    /\ ApiInit
    /\ LayoutIdle
    /\ checked = NotChecked

SpecStore == StoreSpecInit /\ [][StoreNext]_vars

LayoutNext ==
    /\ \E cfg \in LayoutConfigs : mountLayout(cfg)
    /\ UNCHANGED <<formVars, apiVars, storeVars, utilVars>>

\* a composer is created; the store and the endpoint are left alone
LayoutSpecInit ==
    /\ LayoutInit
    /\ StoreModuleInit
    /\ ComposerIdle
    /\ ApiInit
    /\ localStorage = NoItem
    /\ checked = NotChecked

SpecLayout == LayoutSpecInit /\ [][LayoutNext]_vars

ValidateNext ==
    /\ \E field \in ValidateFields : \E value \in ValidateValues :
           validateFieldCall(field, value)
    /\ UNCHANGED <<formVars, apiVars, storeVars, layoutVars>>

\* validateField is called from a page where nothing else happens
ValidateSpecInit ==
    /\ checked \in {Checked(field, value) :
                        field \in ValidateFields, value \in ValidateValues}
    /\ StoreModuleInit
    /\ ComposerIdle
    /\ ApiInit
    /\ LayoutIdle
    /\ localStorage = NoItem

SpecValidate == ValidateSpecInit /\ [][ValidateNext]_vars


(***************************************************************************)
(* Properties of the composer's submit handler.                            *)
(***************************************************************************)
\* the labels a run of handleSubmit up to its first await leaves in lastEvent
SubmitEnds == {"submit:rejected", "submit:invalid", "submit:sent"}

\* a required field whose value is missing, empty or whitespace-only
RequiredEmpty(field, data) ==
    /\ field.required
    /\ \/ data[field.name] = Undefined
       \/ /\ data[field.name].kind = "string"
          /\ Trim(data[field.name].chars) = <<>>

HasNote(notes, type) == \E k \in 1..Len(notes) : notes[k].type = type

C2_SingleSubmissionInFlight ==
    /\ [](Len(pending) <= 1 /\ (pending # <<>> => isSubmitting))
    /\ [][(isSubmitting /\ lastEvent' \in SubmitEnds) =>
              /\ lastEvent' = "submit:rejected"
              /\ pending' = pending]_vars

\* a submit was just rejected while an earlier one is still outstanding
C2_Witness ==
    /\ lastEvent = "submit:rejected"
    /\ ~disabled
    /\ isSubmitting
    /\ Len(pending) = 1

\* C3: when the call returns a body reporting success, the composer sets
\* isSubmitted and clears isSubmitting, removes the stored item and
\* dispatches 'submit'; a submit that fails validation or whose call fails
\* sets no isSubmitted, removes no stored item and dispatches no 'submit'.
C3_SuccessEffectsOnlyOnSuccess ==
    [][/\ lastEvent' = "submit:success" =>
              /\ formState'.isSubmitted
              /\ ~formState'.isSubmitting
              /\ ~isSubmitting'
              /\ localStorage' = NoItem
              /\ HasNote(dispatched', "submit")
       /\ lastEvent' \in {"submit:invalid", "submit:failed"} =>
              /\ formState'.isSubmitted = formState.isSubmitted
              /\ ~formState'.isSubmitted
              /\ localStorage' = localStorage
              /\ ~HasNote(dispatched', "submit")]_vars

\* a submission just succeeded for a form whose values had been stored
C3_Witness ==
    /\ lastEvent = "submit:success"
    /\ config.auto_save = "true"
    /\ formState.isSubmitted
    /\ ~isSubmitting
    /\ localStorage = NoItem
    /\ HasNote(dispatched, "submit")

\* C4: when the call fails (a body reporting failure, or fetch or the body
\* parse throwing) the composer dispatches 'error', clears isSubmitting in
\* the composer and in the store, leaves isSubmitted false and every field
\* value as it was; a following submit passes the entry test and, its
\* fields being valid, issues a new network call.
C4_FailureLeavesFormRetryable ==
    [][/\ lastEvent' = "submit:failed" =>
              /\ HasNote(dispatched', "error")
              /\ ~isSubmitting'
              /\ ~formState'.isSubmitting
              /\ ~formState'.isSubmitted
              /\ formData' = formData
              /\ formState'.data = formState.data
              /\ ~disabled'
       /\ (lastEvent = "submit:failed" /\ lastEvent' \in SubmitEnds) =>
              /\ lastEvent' # "submit:rejected"
              /\ allFieldsValid(config.fields, formData) =>
                    /\ lastEvent' = "submit:sent"
                    /\ Len(pending') = Len(pending) + 1]_vars

\* a submission just failed and the form is ready for another attempt
C4_Witness ==
    /\ lastEvent = "submit:failed"
    /\ HasNote(dispatched, "error")
    /\ ~isSubmitting
    /\ ~formState.isSubmitting
    /\ pending = <<>>
    /\ allFieldsValid(config.fields, formData)

(***************************************************************************)
(* Properties of the submission endpoint.                                  *)
(***************************************************************************)
\* a body that is a JSON object of the submission shape
ShapeOK(b) ==
    /\ b.kind = "object"
    /\ b.form_id.t = "string"
    /\ b.org_code.t = "string" /\ Len(b.org_code.v) = 6
    /\ b.data.t = "object"
    /\ b.session_id.t \in {"undefined", "string"}

\* a JSON body with form_id missing or no string, org_code no string of six
\* characters, or data no record
ShapeBad(b) ==
    /\ b.kind # "malformed"
    /\ \/ b.kind # "object"
       \/ b.form_id.t # "string"
       \/ b.org_code.t # "string"
       \/ Len(b.org_code.v) # 6
       \/ b.data.t # "object"

\* the stored configurations an org code names
Stored(orgCode) == {r \in org_custom_forms : r.org_code = orgCode}

\* the database calls of the request that write
Writes == {k \in 1..Len(dbCalls) : dbCalls[k].op = "insert"}

\* the writes of the request that were carried out, on a table
Recorded(table) == {k \in Writes : dbCalls[k].table = table /\ dbCalls[k].ok}

\* C5: a structurally valid payload whose org_code names no stored
\* configuration is answered 404, success false, "Invalid organization code
\* or form not found", and causes no session or analytics write.
C5_UnknownOrgCodeIs404 ==
    (apiPc # "idle" /\ ShapeOK(body) /\ Stored(body.org_code.v) = {}) =>
        /\ Writes = {}
        /\ apiPc \notin {"session", "track"}
        /\ apiPc = "responded" =>
              /\ response[1].status = 404
              /\ ~response[1].success
              /\ response[1].error = "Invalid organization code or form not found"

\* an unknown org code was just answered, after the lookup
C5_Witness ==
    /\ apiPc = "responded"
    /\ ShapeOK(body)
    /\ body.org_code.v = "NOPE00"
    /\ Len(dbCalls) = 1 /\ dbCalls[1].op = "select" /\ dbCalls[1].ok
    /\ response[1].status = 404

\* C6: a structurally valid payload whose org_code resolves to a stored
\* configuration with another id than the payload's form_id is answered
\* 400 "Form ID mismatch" and causes no session or analytics write.
C6_FormIdMismatchIs400 ==
    (/\ apiPc \notin {"idle", "lookup"}
     /\ ShapeOK(body)
     /\ formLookup.data # <<>>
     /\ \E r \in Stored(body.org_code.v) : r.id # body.form_id.v) =>
        /\ apiPc = "responded"
        /\ response[1].status = 400
        /\ ~response[1].success
        /\ response[1].error = "Form ID mismatch"
        /\ Writes = {}

\* form f1 was submitted under the org code of form f2
C6_Witness ==
    /\ apiPc = "responded"
    /\ body.form_id = JString("f1")
    /\ body.org_code = JString("XYZ789")
    /\ formLookup.data # <<>> /\ formLookup.data[1].id = "f2"
    /\ response[1].error = "Form ID mismatch"

\* C7: a body failing the shape check is answered 400 with a non-empty list
\* of issues, before any lookup: no database call is made for it.
C7_ShapeFailureIs400BeforeLookup ==
    (apiPc # "idle" /\ ShapeBad(body)) =>
        /\ apiPc = "responded"
        /\ response[1].status = 400
        /\ ~response[1].success
        /\ response[1].details # {}
        /\ dbCalls = <<>>
        /\ formLookup = NoLookup

\* a five-character org code, everything else in order, was just refused
C7_Witness ==
    /\ apiPc = "responded"
    /\ body.kind = "object"
    /\ body.form_id = JString("f1")
    /\ body.org_code = JString("ABC12")
    /\ body.data.t = "object"
    /\ response[1].status = 400
    /\ response[1].details = {"org_code"}

\* C8: a structurally valid payload whose org_code resolves to a stored
\* configuration with the payload's form_id is answered 200, success true,
\* with a submission_id and the org_id and form_id of the stored
\* configuration.
C8_MatchingSubmissionIs200 ==
    (/\ apiPc = "responded"
     /\ ShapeOK(body)
     /\ formLookup.data # <<>>
     /\ \E r \in Stored(body.org_code.v) : r.id = body.form_id.v) =>
        /\ response[1].status = 200
        /\ response[1].success
        /\ response[1].data # <<>>
        /\ response[1].data[1].submission_id # ""
        /\ \A r \in Stored(body.org_code.v) :
              /\ response[1].data[1].org_id = r.org_id
              /\ response[1].data[1].form_id = r.id

\* a matching submission was just answered
C8_Witness ==
    /\ apiPc = "responded"
    /\ body.form_id = JString("f1")
    /\ body.org_code = JString("ABC123")
    /\ body.data.t = "object"
    /\ response[1].status = 200
    /\ response[1].data[1].org_id = "o1"

\* C9: a request answered with success true has recorded exactly one
\* 'submit' analytics event, and a session row exactly when the payload
\* carried a session_id.
C9_SuccessImpliesRecorded ==
    (apiPc = "responded" /\ response[1].success) =>
        /\ Cardinality(Recorded("form_analytics")) = 1
        /\ Recorded("form_sessions") # {} <=> body.session_id.t = "string"

\* C10, as stated: the 500 answers carry one message, whatever was raised.
C10_GenericMessage == Cardinality(seen500) <= 1

\* the message handleApiError gives an error
MessageOf(error) ==
    IF error.code = "PGRST116" THEN "Form not found"
    ELSE IF error.message # "" THEN error.message
    ELSE GenericMessage

\* C10, amended: an error raised while processing the request that is no
\* shape-validation error is answered 500, success false, with the raised
\* error's own message (the fixed text only for an error without one).
C10_RaisedMessageForwarded ==
    (apiPc = "responded" /\ thrown # <<>> /\ thrown[1].name # "ZodError") =>
        /\ response[1].status = 500
        /\ ~response[1].success
        /\ response[1].error = MessageOf(thrown[1])

\* two requests whose bodies were not JSON were answered with two messages
C10_Witness ==
    /\ apiPc = "responded"
    /\ thrown # <<>> /\ thrown[1].name = "SyntaxError"
    /\ response[1].status = 500
    /\ response[1].error = thrown[1].message
    /\ Cardinality(seen500) = 2

(***************************************************************************)
(* Properties of the form state store.                                     *)
(***************************************************************************)
\* C11: updateField is idempotent: the store state and the stored item that
\* one updateField(name, value) leaves are left as they are by the same call
\* made again (and so by any number of repetitions).
C11_UpdateFieldIdempotent ==
    call.op = "updateField" =>
        /\ updateField(formState, call.fieldName, call.value) = formState
        /\ updateFieldSave(formState, call.fieldName, call.value, localStorage)
               = localStorage

\* updateField has just stored a value and, auto-save being on, saved the map
C11_Witness ==
    /\ call.op = "updateField"
    /\ formState.config # <<>> /\ formState.config[1].auto_save = "true"
    /\ formState.data[call.fieldName] = call.value
    /\ localStorage = JSONstringify(formState.data)

C13_Reset ==
    [][call'.op = "reset" =>
          IF formConfig # <<>>
          THEN /\ formState'.data = EmptyData
               /\ formState'.errors = EmptyErrors
               /\ formState'.sessionId # formState.sessionId
               /\ localStorage' = NoItem
          ELSE /\ formState' = formState
               /\ localStorage' = localStorage
               /\ formConfig' = formConfig]_vars

\* reset has just cleared a store that had been initialized
C13_Witness ==
    /\ call.op = "reset"
    /\ formConfig # <<>>
    /\ formState.data = EmptyData
    /\ formState.errors = EmptyErrors
    /\ formState.sessionId = 2
    /\ localStorage = NoItem

(***************************************************************************)
(* Properties of the composer's layout.                                    *)
(***************************************************************************)
\* the ordered field list of the configuration laid out
OrderedFields ==
    sortFields(layoutConfig.fields,
               IF layoutConfig.fieldOrder # <<>> THEN layoutConfig.fieldOrder
               ELSE layoutConfig.fields)

\* C14: with C columns the field at 0-based position i of the ordered field
\* list is in column i mod C, and each column holds its fields in the order
\* of that list.
C14_RoundRobinColumns ==
    LET C == IF layoutConfig.columns # 0 THEN layoutConfig.columns ELSE 1
        n == Len(OrderedFields)
    IN  /\ Len(fieldLayout) = C
        /\ \A k \in 0..(C - 1) :
              LET positions == {i \in 0..(n - 1) : i % C = k}
              IN  /\ Len(fieldLayout[k + 1]) = Cardinality(positions)
                  /\ \A m \in 1..Cardinality(positions) :
                        fieldLayout[k + 1][m] = OrderedFields[k + (m - 1) * C + 1]

\* seven fields in three columns
C14_Witness ==
    /\ layoutConfig.columns = 3
    /\ layoutConfig.fields = <<1, 2, 3, 4, 5, 6, 7>>
    /\ layoutConfig.fieldOrder = <<>>
    /\ fieldLayout = <<<<1, 4, 7>>, <<2, 5>>, <<3, 6>>>>

(***************************************************************************)
(* Properties of the store's validation and error operations.              *)
(***************************************************************************)
\* C15: validate() leaves, for every field of the active config, the message
\* validateField gives the field's value (none when it is valid), so the
\* error map holds exactly the failing fields' messages, and it returns
\* true exactly when no field failed.
C15_ValidateAgreesWithValidateField ==
    (call.op = "validate" /\ formState.config # <<>>) =>
        LET fields == formState.config[1].fields
            verdict(i) == validateField(fields[i], formState.data[fields[i].name])
        IN  /\ \A i \in 1..Len(fields) :
                  formState.errors[fields[i].name] =
                      IF verdict(i).isValid THEN NoMsg ELSE verdict(i).error
            /\ call.ret = \A i \in 1..Len(fields) : verdict(i).isValid

\* C16: setFieldError, clearFieldError and clearErrors change nothing but
\* the error map (data, config, isSubmitting, isSubmitted, sessionId and the
\* stored item stay), and the first two leave the entry of every other
\* field name as it was.
C16_ErrorOperationsFrame ==
    [][call'.op \in {"setFieldError", "clearFieldError", "clearErrors"} =>
          /\ formState'.data = formState.data
          /\ formState'.config = formState.config
          /\ formState'.isSubmitting = formState.isSubmitting
          /\ formState'.isSubmitted = formState.isSubmitted
          /\ formState'.sessionId = formState.sessionId
          /\ formState'.lastSaved = formState.lastSaved
          /\ formConfig' = formConfig
          /\ localStorage' = localStorage
          /\ call'.op # "clearErrors" =>
                \A n \in FieldNames \ {call'.fieldName} :
                    formState'.errors[n] = formState.errors[n]]_vars

\* clearFieldError has cleared one entry of a store that holds data, a
\* stored item and another field's error
C16_Witness ==
    /\ call.op = "clearFieldError"
    /\ formState.errors[call.fieldName] = NoMsg
    /\ \E n \in FieldNames \ {call.fieldName} : formState.errors[n] # NoMsg
    /\ formState.data # EmptyData
    /\ localStorage.kind = "json"

\* C17: setSubmitted() sets isSubmitted, leaves no stored item for the
\* active config, and raises no error.
C17_SetSubmitted ==
    call.op = "setSubmitted" =>
        /\ formState.isSubmitted
        /\ formState.config # <<>> => localStorage = NoItem
        /\ call.raised = ""

\* C18: initialize(config) makes config the active config, empties the
\* error map, issues another sessionId, and leaves data empty unless
\* auto_save is on and the stored item parses, in which case data is the
\* stored map; with auto_save off or absent data is empty whatever is stored.
C18_Initialize ==
    [][call'.op = "initialize" =>
          /\ formConfig' # <<>>
          /\ formState'.config = formConfig'
          /\ formState'.errors = EmptyErrors
          /\ formState'.sessionId # formState.sessionId
          /\ formState'.data =
                 IF formConfig'[1].auto_save = "true" /\ localStorage.kind = "json"
                 THEN localStorage.obj
                 ELSE EmptyData]_vars

\* initialize with auto_save off has left data empty although a map is stored
C18_Witness ==
    /\ call.op = "initialize"
    /\ formConfig # <<>> /\ formConfig[1].auto_save = "false"
    /\ formState.config = formConfig
    /\ localStorage.kind = "json" /\ localStorage.obj # EmptyData
    /\ formState.data = EmptyData

(***************************************************************************)
(* Properties of loading and auto-save in the composer.                    *)
(***************************************************************************)
\* C19: when the stored item is absent or does not parse, mounting the form
\* leaves the composer's and the store's data and errors empty and notifies
\* nobody.
C19_AbsentOrMalformedItemIgnored ==
    (lastEvent = "mount" /\ localStorage.kind \in {"absent", "corrupt"}) =>
        /\ formData = EmptyData
        /\ formState.data = EmptyData
        /\ errors = EmptyErrors
        /\ formState.errors = EmptyErrors
        /\ dispatched = <<>>
        /\ ~isSubmitting /\ ~submitted

\* the form was mounted over an item that does not parse
C19_Witness ==
    /\ lastEvent = "mount"
    /\ localStorage = CorruptItem
    /\ config.auto_save = "true"
    /\ formData = EmptyData
    /\ formState.data = EmptyData

\* C20: with auto_save false or settings absent no step writes a map to
\* the stored item.
C20_NoWriteUnlessAutoSave ==
    [][config.auto_save \in {"false", "undefined"} =>
          ~(localStorage' # localStorage /\ localStorage'.kind = "json")]_vars

(***************************************************************************)
(* Progress.  A JavaScript number is kept as an exact fraction num/den, or *)
(* is NaN (0 / 0).                                                         *)
(***************************************************************************)
NaN == [kind |-> "NaN", num |-> 0, den |-> 1]

Number(num, den) == [kind |-> "number", num |-> num, den |-> den]

\* a / b * 100
Percent(a, b) == IF b = 0 THEN NaN ELSE Number(a * 100, b)

requiredFields(fields) == SelectSeq(fields, LAMBDA f : f.required)

\* the derived store formProgress
formProgress(st) ==
    IF st.config = <<>> THEN Number(0, 1)
    ELSE LET required == requiredFields(st.config[1].fields)
             filledRequiredFields ==
                 SelectSeq(required,
                           LAMBDA f : /\ Truthy(st.data[f.name])
                                      /\ Trim(toString(st.data[f.name])) # <<>>)
         IN  IF Len(required) > 0
             THEN Percent(Len(filledRequiredFields), Len(required))
             ELSE Number(0, 1)

\* `$: progress` of the composer
progress(cfg, data) ==
    Percent(Len(SelectSeq(cfg.fields,
                          LAMBDA f : f.required /\ Truthy(data[f.name]))),
            Len(requiredFields(cfg.fields)))

\* the template shows progress only inside
\* `{#if showProgress && config.fields.some(f => f.required)}`
progressShown(cfg, showProgress) ==
    showProgress /\ \E i \in 1..Len(cfg.fields) : cfg.fields[i].required

\* a value that is missing, empty or whitespace-only
IsBlank(v) == ~Truthy(v) \/ Trim(toString(v)) = <<>>

\* 100 * (required fields with a non-blank value) / (required fields)
FilledShare(fields, data) ==
    LET required == {i \in 1..Len(fields) : fields[i].required}
        filled == {i \in required : ~IsBlank(data[fields[i].name])}
    IN  IF required = {} THEN Number(0, 1)
        ELSE Number(100 * Cardinality(filled), Cardinality(required))

\* C21: progress is 100 times the share of required fields whose value is
\* not missing, empty or whitespace-only (0 without required fields or
\* without a config), in the store's derived value and in the value the
\* composer shows.
C21_ProgressIsFilledShare ==
    /\ formState.config # <<>> =>
           formProgress(formState) = FilledShare(formState.config[1].fields, formState.data)
    /\ progressShown(config, TRUE) =>
           progress(config, formData) = FilledShare(config.fields, formData)

(***************************************************************************)
(* Properties of validateField.                                            *)
(***************************************************************************)
\* the rule of validateField that a call must fail on, "" when it passes
FirstFailure(field, value) ==
    LET text == toString(value)
    IN  IF field.required /\ IsBlank(value) THEN "required"
        ELSE IF ~Truthy(value) THEN ""
        ELSE IF field.type = "email" THEN (IF emailRegex(text) THEN "" ELSE "email")
        ELSE IF field.type = "phone" THEN (IF phoneRegex(text) THEN "" ELSE "phone")
        ELSE IF field.type \notin {"text", "textarea"} THEN ""
        ELSE IF field.min # 0 /\ Len(text) < field.min THEN "min"
        ELSE IF field.max # 0 /\ Len(text) > field.max THEN "max"
        ELSE IF field.pattern # "" /\ ~RegExpTest(field.pattern, text) THEN "pattern"
        ELSE ""

\* C22: validateField returns the first failure of: required and blank;
\* (an empty value of a field that is not required passes); the check of
\* the field's type, with min before max before pattern for text and
\* textarea; everything else passes.
C22_FirstFailureWins ==
    LET rule == FirstFailure(checked.field, checked.value)
    IN  /\ checked.result.isValid <=> rule = ""
        /\ rule = "" => checked.result.error = NoMsg
        /\ rule = "required" =>
               checked.result.error = RequiredMsg(checked.field.label)
        /\ rule = "email" => checked.result.error = EmailMsg
        /\ rule = "phone" => checked.result.error = PhoneMsg
        /\ rule = "min" => checked.result.error = MinMsg(checked.field.min)
        /\ rule = "max" => checked.result.error = MaxMsg(checked.field.max)
        /\ rule = "pattern" => checked.result.error = FormatMsg
        /\ (~checked.field.required /\ ~Truthy(checked.value)) =>
               checked.result = Valid

\* a text value shorter than min, longer than max and not matching the
\* pattern is reported as too short
C22_Witness ==
    /\ checked.field.type = "text"
    /\ checked.field.min = 5 /\ checked.field.max = 3
    /\ checked.field.pattern = "^a"
    /\ checked.value = Str(<<"b", "1", "b", "b">>)
    /\ checked.result = Invalid(MinMsg(5))

(***************************************************************************)
(* Properties of the composer's layout.                                    *)
(***************************************************************************)
\* layout.columns clamped into 1..4, 1 when absent
ClampedColumns(columns) ==
    IF columns = 0 THEN 1
    ELSE IF columns < 1 THEN 1
    ELSE IF columns > 4 THEN 4
    ELSE columns

\* C23: the layout has layout.columns columns when that is within 1..4, one
\* column when it is absent, and otherwise the value clamped into 1..4.
C23_ColumnsClamped ==
    /\ Len(fieldLayout) = ClampedColumns(layoutConfig.columns)
    /\ Len(fieldLayout) \in 1..4

\* the fields in layout order: position i is row i \div C of column i % C
LaidOut ==
    LET C == Len(fieldLayout)
        n == Len(layoutConfig.fields)
    IN  [p \in 1..n |-> fieldLayout[((p - 1) % C) + 1][((p - 1) \div C) + 1]]

Listed(f) == indexOf(layoutConfig.fieldOrder, f) # -1

\* C24: in the ordered field list the fields named in fieldOrder are in
\* the order fieldOrder gives, and the fields it does not name keep their
\* relative order of config.fields.
C24_FieldOrder ==
    \A p, q \in 1..Len(layoutConfig.fields) :
        p < q =>
            /\ (Listed(LaidOut[p]) /\ Listed(LaidOut[q])) =>
                   indexOf(layoutConfig.fieldOrder, LaidOut[p])
                       < indexOf(layoutConfig.fieldOrder, LaidOut[q])
            /\ (~Listed(LaidOut[p]) /\ ~Listed(LaidOut[q])) =>
                   indexOf(layoutConfig.fields, LaidOut[p])
                       < indexOf(layoutConfig.fields, LaidOut[q])

\* five fields, three of them named in fieldOrder in another order
C24_Witness ==
    /\ layoutConfig.fields = <<1, 2, 3, 4, 5>>
    /\ layoutConfig.fieldOrder = <<3, 1, 2>>
    /\ layoutConfig.columns = 1
    /\ fieldLayout = <<<<4, 5, 3, 1, 2>>>>

\* how often field f occurs in the columns
Occurrences(f) ==
    Cardinality({<<k, m>> \in (1..Len(fieldLayout)) \X (1..MaxFields) :
                     m <= Len(fieldLayout[k]) /\ fieldLayout[k][m] = f})

\* C26: the columns partition config.fields (every field once in exactly
\* one column, nothing else in any column) and the sizes of two columns
\* differ by at most one.
C26_LayoutIsPartition ==
    /\ \A i \in 1..Len(layoutConfig.fields) :
           Occurrences(layoutConfig.fields[i]) = 1
    /\ \A k \in 1..Len(fieldLayout) : \A m \in 1..Len(fieldLayout[k]) :
           indexOf(layoutConfig.fields, fieldLayout[k][m]) # -1
    /\ \A k, l \in 1..Len(fieldLayout) :
           Len(fieldLayout[k]) - Len(fieldLayout[l]) \in {-1, 0, 1}

\* more columns than fields: two columns hold a field, three stay empty
C26_Witness ==
    /\ layoutConfig.columns = 5
    /\ layoutConfig.fields = <<1, 2>>
    /\ fieldLayout = <<<<1>>, <<2>>, <<>>, <<>>, <<>>>>

(***************************************************************************)
(* Properties of the field renderers.                                      *)
(***************************************************************************)
\* the field of the mounted config with the name
FieldNamed(name) ==
    CHOOSE f \in {config.fields[i] : i \in 1..Len(config.fields)} : f.name = name

\* the message the store must hold for a field after its blur
BlurMessage(f, value) ==
    IF validateField(f, value).isValid THEN NoMsg
    ELSE validateField(f, value).error

\* C25: an input or change event on a field leaves the store without an
\* error for that field and sets no error for any field; after a blur
\* event the store holds an error for the field exactly when validateField
\* fails on the field's current value, and the error is validateField's
\* message.
C25_ValidateOnBlurOnly ==
    [][/\ lastEvent' = "input" =>
              /\ formState'.errors[lastField'] = NoMsg
              /\ \A n \in FieldNames :
                     formState'.errors[n] \in {NoMsg, formState.errors[n]}
       /\ lastEvent' = "blur" =>
              formState'.errors[lastField'] =
                  BlurMessage(FieldNamed(lastField'), formData'[lastField'])]_vars

\* a blur has just left an error for a value that a keystroke had put in
\* without one
C25_Witness ==
    /\ lastEvent = "blur"
    /\ lastField = "contact"
    /\ formData["contact"] = Str(<<"a", "b">>)
    /\ formState.errors["contact"] = EmailMsg
    /\ errors["contact"] = EmailMsg

(***************************************************************************)
(* Properties of a submission in flight.                                   *)
(***************************************************************************)
\* the step ends invocation i of handleSubmit in its success branch
Succeeds(i) ==
    /\ i \in 1..Len(pending)
    /\ pending[i].pc = "json"
    /\ pending' = Remove(pending, i)
    /\ lastEvent' = "submit:success"

\* C27: the 'submit' notification of a successful submission reports the
\* field values that were sent in the request body.
C27_SubmitReportsSentData ==
    [][\A i \in 1..Len(pending) :
           Succeeds(i) =>
               /\ HasNote(dispatched', "submit")
               /\ \A k \in 1..Len(dispatched') :
                      dispatched'[k].type = "submit" =>
                          dispatched'[k].data = pending[i].body.data]_vars

\* C28: a success response arriving after the form was reset in flight does
\* not mark the reset form as submitted.
C28_ResetInFlightNotSubmitted ==
    [][\A i \in 1..Len(pending) :
           (lastEvent = "reset" /\ Succeeds(i)) =>
               /\ ~formState'.isSubmitted
               /\ ~submitted']_vars

(***************************************************************************)
(* Properties of the stored item and of the analytics queue.               *)
(***************************************************************************)
\* C29: when a reset or a successful submission has just erased the stored
\* item, the auto-save timer firing next leaves storage without the item.
C29_TimerKeepsItemErased ==
    [][(/\ lastEvent \in {"reset", "submit:success"}
        /\ localStorage = NoItem
        /\ lastEvent' = "timer") => localStorage' = NoItem]_vars

\* how many events of the type a handler run enqueued
CountOf(events, type) ==
    Cardinality({k \in 1..Len(events) : events[k] = type})

\* C30: the success branch of a submission enqueues exactly one 'submit'
\* event and no 'error' event, and an 'error' event is enqueued only by a
\* run that ends in the failure of the submission.
C30_AnalyticsMatchOutcome ==
    [][/\ lastEvent' = "submit:success" =>
              /\ CountOf(tracked', "submit") = 1
              /\ CountOf(tracked', "error") = 0
       /\ CountOf(tracked', "error") > 0 => lastEvent' = "submit:failed"]_vars

=============================================================================
